---------------------------- MODULE Spec2Model ----------------------------
(***************************************************************************)
(* State-machine model of tomography/plotting.py: the two interactive      *)
(* viewers DataViewer (stack viewer) and Tomographyplot (volume explorer). *)
(*                                                                         *)
(* Arrays are represented by their shape; an image layer is identified by  *)
(* the frame / slice index it was cut at.  Python indexing (0-based, with  *)
(* negative wrap-around and IndexError outside -n .. n-1) is modelled by   *)
(* InRange / PyPos / PyIndex.  Pointer positions are fixed-point numbers   *)
(* in half pixels (x2 = 2 * event.xdata).                                  *)
(* One behaviour follows the life of one viewer object: Init picks the     *)
(* component and the constructor arguments, Next is the constructor and    *)
(* the callbacks the widget toolkit can fire afterwards.                   *)
(***************************************************************************)
EXTENDS Integers, Sequences, FiniteSets, TLC

\* ------------------------------------------------------------------------
\* Bounds of the model
\* ------------------------------------------------------------------------
MaxAz == 2

MaxRg == 1

MaxHeightDim == 3

MaxClicks == 2

MaxLabels == 4

MaxImages == 3

VARIABLES
    \* ---- Tomographyplot ----
    tp_status,       \* "absent" | "new" | "failed" | "ready"
    capon_bf_abs,    \* shape <<azimuth, range, height>> of the argument
    caponnorm,       \* shape of the argument
    height,          \* self.height
    slider,          \* self.slider   [created, min, max, value]
    checkbox,        \* self.checkbox [created, value]
    clearbutton,     \* self.clearbutton exists
    fig,             \* self.fig (with ax1..ax4) exists
    ax1_images,      \* self.ax1.images, oldest first
    ax1_title,       \* <<h>> once a title 'horizontal slice at height h m' is set
    fig_colorbars,   \* colorbars attached to the figure, each with its mappable
    lhor,            \* <<ydata>> of the horizontal cross-hair line
    lver,            \* <<xdata>> of the vertical cross-hair line
    ax2,             \* the vertical profile axes
    ax3,             \* the range slice axes
    ax4,             \* the azimuth slice axes
    subset_vertical, \* <<[az, rg, len]>>: the profile onclick extracted last
    event,           \* the last button_press_event delivered to onclick
    click_log,       \* clicks on ax1 since construction / the last clear button press
    error,           \* exception raised by the last constructor / callback
    \* ---- DataViewer ----
    dv_status,       \* "absent" | "new" | "ready"
    slc_list,
    phase_list,
    kz_list,
    stack_depth,     \* length of the frame axis of the three stacks
    dv_slider,
    dv_titles,       \* <<[ax1, ax2, ax3]>> once titles are set
    dv_ax1_images,
    dv_ax2_images,
    dv_ax3_images,
    dv_error

tp_vars == <<tp_status, capon_bf_abs, caponnorm, height, slider, checkbox,
             clearbutton, fig, ax1_images, ax1_title, fig_colorbars, lhor,
             lver, ax2, ax3, ax4, subset_vertical, event, click_log, error>>

dv_vars == <<dv_status, slc_list, phase_list, kz_list, stack_depth, dv_slider,
             dv_titles, dv_ax1_images, dv_ax2_images, dv_ax3_images, dv_error>>

vars == <<tp_vars, dv_vars>>

\* ------------------------------------------------------------------------
\* Python / numpy / widget primitives
\* ------------------------------------------------------------------------
\* i is a legal index of a sequence / axis of length n
InRange(n, i) == -n <= i /\ i < n

\* the 0-based position a legal index i denotes
PyPos(n, i) == IF i >= 0 THEN i ELSE n + i

\* s[i] in Python
PyIndex(s, i) == s[PyPos(Len(s), i) + 1]

\* len(range(a, b))
RangeLen(a, b) == IF b > a THEN b - a ELSE 0

\* int(x) of a float given in half units: truncation toward zero
IntOfHalves(x2) == IF x2 >= 0 THEN x2 \div 2 ELSE -((-x2) \div 2)

\* a bounded integer slider clamps a proposed value into [min, max]
Clamp(lo, hi, v) == IF v < lo THEN lo ELSE IF v > hi THEN hi ELSE v

NoWidget == [created |-> FALSE, min |-> 0, max |-> 0, value |-> 0]

NoCheckbox == [created |-> FALSE, value |-> FALSE]

\* a freshly created (or cla()-ed) axes
FreshAxes == [lines |-> <<>>, legend |-> <<>>, ylabel |-> "", xlabel |-> "",
              title |-> "", ylim |-> <<0, 1>>]

FreshImageAxes == [images |-> <<>>, title |-> <<>>, xlim |-> <<0, 1>>,
                   yticklabels |-> <<>>, yticks2 |-> <<>>]

NoEvent == [inaxes |-> "none", x2 |-> 0, y2 |-> 0]

\* remove the first element equal to x from sequence s
RECURSIVE RemoveFirst(_, _)
RemoveFirst(s, x) ==
    IF s = <<>> THEN <<>>
    ELSE IF Head(s) = x THEN Tail(s)
    ELSE <<Head(s)>> \o RemoveFirst(Tail(s), x)

\* ------------------------------------------------------------------------
\* label formatting: 'rg: {0:03}; az: {1:03}'.format(rg, az)
\* ------------------------------------------------------------------------
DigitChar == <<"0", "1", "2", "3", "4", "5", "6", "7", "8", "9">>

RECURSIVE Digits(_)
Digits(n) == IF n < 10 THEN <<DigitChar[n + 1]>>
             ELSE Append(Digits(n \div 10), DigitChar[(n % 10) + 1])

RECURSIVE ZeroPad(_, _)
ZeroPad(ds, w) == IF Len(ds) >= w THEN ds ELSE ZeroPad(<<"0">> \o ds, w)

\* format(n, '03'): sign-aware zero padding to width 3
Format03(n) == IF n >= 0 THEN ZeroPad(Digits(n), 3)
               ELSE <<"-">> \o ZeroPad(Digits(-n), 2)

LabelRgOnly(rg, az) == <<"rg: ">> \o Format03(rg) \o <<"; az: ">> \o Format03(0)

ProfileLabel(rg, az) == <<"rg: ">> \o Format03(rg) \o <<"; az: ">> \o Format03(az)

\* ------------------------------------------------------------------------
\* Tomographyplot
\* ------------------------------------------------------------------------
Shapes == (1..MaxAz) \X (1..MaxRg) \X (1..MaxHeightDim)

ShapesMatchPlane(a, b) == a[1] = b[1] /\ a[2] = b[2]

\* caponnorm.shape == capon_bf_abs.shape
ShapesMatch(a, b) == a = b

HalfHeight(shape) == shape[3] \div 2

\* the index of the height axis onslide reads: self.height - h
HeightIndex(H, h) == H - h

KeepOldest(images) == IF Len(images) > 1 THEN <<images[1]>> ELSE images

\* ax1.images after 'if len(images) > 1: del images[0]'
DropPrevious(images) == IF Len(images) > 1 THEN Tail(images) ELSE images

\* the colorbars after 'if len(images) > 1: images[0].colorbar.remove()'
DropPreviousColorbar(images, cbars) ==
    IF Len(images) > 1 THEN RemoveFirst(cbars, [mappable |-> images[1]])
    ELSE cbars

\* onslide(h) with self.height = H
onslide(H, h) ==
    LET n == caponnorm[3]
        i == HeightIndex(H, h)
    IN  IF InRange(n, i)
        THEN LET p1  == [idx |-> PyPos(n, i)]
                 all == Append(ax1_images, p1)
             IN  /\ ax1_images' = DropPrevious(all)
                 /\ fig_colorbars' =
                        Append(DropPreviousColorbar(all, fig_colorbars),
                               [mappable |-> p1])
                 /\ ax1_title' = <<h>>
                 /\ error' = "none"
        ELSE /\ error' = "IndexError"
             /\ UNCHANGED <<ax1_images, fig_colorbars, ax1_title>>

NeverClear(ax, H) ==
    [ax EXCEPT !.ylabel = "height [m]", !.xlabel = "reflectivity",
               !.title = "vertical point profiles", !.ylim = <<-H, H>>]

\* init_vertical_plot() applied to the axes ax
init_vertical_plot(ax, H) ==
    LET a == IF Len(ax.lines) > 0 THEN FreshAxes ELSE ax
    IN  [a EXCEPT !.ylabel = "height [m]", !.xlabel = "reflectivity",
                  !.title = "vertical point profiles", !.ylim = <<-H, H>>]

\* ax2.plot(x, y, label=label) followed by ax2.legend(): x and y must have
\* the same first dimension
PlotOk(xlen, ylen) == xlen = ylen

plot(ax, line) ==
    LET ls == Append(ax.lines, line)
    IN  [ax EXCEPT !.lines = ls, !.legend = [k \in 1..Len(ls) |-> ls[k].label]]

imshow(ax, what, ttl) ==
    [ax EXCEPT !.images = Append(ax.images, what), !.title = <<ttl>>]

TPFields0 ==
    /\ height = 0
    /\ slider = NoWidget
    /\ checkbox = NoCheckbox
    /\ clearbutton = FALSE
    /\ fig = FALSE
    /\ ax1_images = <<>>
    /\ ax1_title = <<>>
    /\ fig_colorbars = <<>>
    /\ lhor = <<>>
    /\ lver = <<>>
    /\ ax2 = FreshAxes
    /\ ax3 = FreshImageAxes
    /\ ax4 = FreshImageAxes
    /\ subset_vertical = <<>>
    /\ event = NoEvent
    /\ click_log = <<>>
    /\ error = "none"

InitTP ==
    /\ tp_status = "new"
    /\ capon_bf_abs \in Shapes
    /\ caponnorm \in Shapes
    /\ TPFields0

IdleTP ==
    /\ tp_status = "absent"
    /\ capon_bf_abs = <<1, 1, 1>>
    /\ caponnorm = <<1, 1, 1>>
    /\ TPFields0

\* __init__ raising RuntimeError('mismatch of input arrays')
ConstructMismatch ==
    /\ tp_status = "new"
    /\ ~ShapesMatch(caponnorm, capon_bf_abs)
    /\ tp_status' = "failed"
    /\ error' = "RuntimeError"
    /\ UNCHANGED <<capon_bf_abs, caponnorm, height, slider, checkbox,
                   clearbutton, fig, ax1_images, ax1_title, fig_colorbars,
                   lhor, lver, ax2, ax3, ax4, subset_vertical, event,
                   click_log>>
    /\ UNCHANGED dv_vars

\* __init__ running to its end; interactive_output calls onslide once with
\* the slider's initial value
Construct ==
    /\ tp_status = "new"
    /\ ShapesMatch(caponnorm, capon_bf_abs)
    /\ LET H  == HalfHeight(capon_bf_abs)
           v0 == Clamp(-H, H, 0)
       IN  /\ height' = H
           /\ slider' = [created |-> TRUE, min |-> -H, max |-> H, value |-> v0]
           /\ checkbox' = [created |-> TRUE, value |-> TRUE]
           /\ clearbutton' = TRUE
           /\ fig' = TRUE
           /\ ax3' = [FreshImageAxes EXCEPT
                        !.xlim = <<0, capon_bf_abs[2]>>,
                        !.yticklabels = <<-H, (-H) \div 2, 0, H \div 2, H>>,
                        !.yticks2 = <<0, H, 2 * H, 3 * H, 4 * H>>]
           /\ ax4' = [FreshImageAxes EXCEPT
                        !.xlim = <<0, capon_bf_abs[1]>>,
                        !.yticklabels = <<-H, (-H) \div 2, 0, H \div 2, H>>,
                        !.yticks2 = <<0, H, 2 * H, 3 * H, 4 * H>>]
           /\ ax2' = init_vertical_plot(FreshAxes, H)
           /\ lhor' = <<0>>
           /\ lver' = <<0>>
           /\ onslide(H, v0)
    /\ tp_status' = "ready"
    /\ UNCHANGED <<capon_bf_abs, caponnorm, subset_vertical, event, click_log>>
    /\ UNCHANGED dv_vars

\* the height slider takes a new value h; the observer runs onslide(h).
\* The slider's value trait accepts every integer of min .. max; step only
\* spaces the positions the front end offers, the first of which is min.
SliderChange(h) ==
    /\ tp_status = "ready"
    /\ h \in slider.min .. slider.max
    /\ h # slider.value
    /\ slider' = [slider EXCEPT !.value = h]
    /\ onslide(height, h)
    /\ UNCHANGED <<tp_status, capon_bf_abs, caponnorm, height, checkbox,
                   clearbutton, fig, lhor, lver, ax2, ax3, ax4,
                   subset_vertical, event, click_log>>
    /\ UNCHANGED dv_vars

ToggleCheckbox ==
    /\ tp_status = "ready"
    /\ checkbox' = [checkbox EXCEPT !.value = ~checkbox.value]
    /\ UNCHANGED <<tp_status, capon_bf_abs, caponnorm, height, slider,
                   clearbutton, fig, ax1_images, ax1_title, fig_colorbars,
                   lhor, lver, ax2, ax3, ax4, subset_vertical, event,
                   click_log, error>>
    /\ UNCHANGED dv_vars

\* clearbutton.on_click(lambda x: self.init_vertical_plot())
ClearButton ==
    /\ tp_status = "ready"
    /\ ax2' = init_vertical_plot(ax2, height)
    /\ click_log' = <<>>
    /\ error' = "none"
    /\ UNCHANGED <<tp_status, capon_bf_abs, caponnorm, height, slider,
                   checkbox, clearbutton, fig, ax1_images, ax1_title,
                   fig_colorbars, lhor, lver, ax3, ax4, subset_vertical,
                   event>>
    /\ UNCHANGED dv_vars

\* pointer positions inside an image of n pixels along one axis (extent
\* -0.5 .. n - 0.5), taken at the pixel edges -0.5, 0.5, .., n - 0.5
PixelEdges(n) == {2 * k - 1 : k \in 0..n}

ClickPixelRounded(x2, y2) == [rg |-> (x2 + 1) \div 2, az |-> (y2 + 1) \div 2]

\* rg = int(event.xdata), az = int(event.ydata)
ClickPixel(x2, y2) == [rg |-> IntOfHalves(x2), az |-> IntOfHalves(y2)]

\* capon_bf_abs[az, rg, :]
SubsetVertical(az, rg) == [az |-> PyPos(capon_bf_abs[1], az),
                           rg |-> PyPos(capon_bf_abs[2], rg),
                           len |-> capon_bf_abs[3]]

\* onclick(event) for a press inside ax1 at (x2 / 2, y2 / 2)
OnClick(x2, y2) ==
    /\ tp_status = "ready"
    /\ Len(click_log) < MaxClicks
    /\ Len(ax3.images) < MaxClicks
    /\ x2 \in PixelEdges(caponnorm[2])
    /\ y2 \in PixelEdges(caponnorm[1])
    /\ event' = [inaxes |-> "ax1", x2 |-> x2, y2 |-> y2]
    /\ LET rg == ClickPixel(x2, y2).rg
           az == ClickPixel(x2, y2).az
       IN  /\ lhor' = <<az>>
           /\ lver' = <<rg>>
           /\ click_log' = Append(click_log,
                                  [stack |-> checkbox.value, rg |-> rg, az |-> az])
           /\ IF InRange(capon_bf_abs[1], az) /\ InRange(capon_bf_abs[2], rg)
              THEN LET sv    == SubsetVertical(az, rg)
                       a1    == IF ~checkbox.value
                                THEN init_vertical_plot(ax2, height)
                                ELSE ax2
                       label == ProfileLabel(rg, az)
                   IN  /\ subset_vertical' = <<sv>>
                       /\ IF PlotOk(sv.len, RangeLen(-height, height + 1))
                          THEN /\ ax2' = plot(a1, [label |-> label, src |-> sv])
                               /\ ax3' = imshow(ax3, [az |-> az], az)
                               /\ ax4' = imshow(ax4, [rg |-> rg], rg)
                               /\ error' = "none"
                          ELSE /\ ax2' = a1
                               /\ error' = "ValueError"
                               /\ UNCHANGED <<ax3, ax4>>
              ELSE /\ error' = "IndexError"
                   /\ UNCHANGED <<subset_vertical, ax2, ax3, ax4>>
    /\ UNCHANGED <<tp_status, capon_bf_abs, caponnorm, height, slider,
                   checkbox, clearbutton, fig, ax1_images, ax1_title,
                   fig_colorbars>>
    /\ UNCHANGED dv_vars

\* onclick(event) for a press with event.inaxes other than ax1 (another axes
\* or None): nothing happens
OnClickElsewhere ==
    /\ tp_status = "ready"
    /\ event' = [inaxes |-> "other", x2 |-> 0, y2 |-> 0]
    /\ UNCHANGED <<tp_status, capon_bf_abs, caponnorm, height, slider,
                   checkbox, clearbutton, fig, ax1_images, ax1_title,
                   fig_colorbars, lhor, lver, ax2, ax3, ax4, subset_vertical,
                   click_log, error>>
    /\ UNCHANGED dv_vars

\* ------------------------------------------------------------------------
\* DataViewer
\* ------------------------------------------------------------------------
\* a file path; only os.path.basename(path) is displayed
Path(kind, k) == [dir |-> "/data", base |-> <<kind, k>>]

Basename(p) == p.base

\* the list of n paths of one kind, tagged with their 0-based position
PathList(kind, n) == [k \in 1..n |-> Path(kind, k - 1)]

DVFields0 ==
    /\ dv_slider = NoWidget
    /\ dv_titles = <<>>
    /\ dv_ax1_images = <<>>
    /\ dv_ax2_images = <<>>
    /\ dv_ax3_images = <<>>
    /\ dv_error = "none"

\* the constructor arguments: at least two SLC files (the slider range
\* 1 .. len(slc_list) - 1 is not empty), phase and wavenumber lists that
\* cover the indices h - 1, stacks with a frame for every slider value
InitDV ==
    /\ dv_status = "new"
    /\ \E n \in 2..MaxLabels :
          /\ slc_list = PathList("slc", n)
          /\ \E m \in {n - 1, n} : phase_list = PathList("phase", m)
          /\ \E m \in {n - 1, n} : kz_list = PathList("kz", m)
          /\ stack_depth \in {n, n + 1}
    /\ DVFields0

IdleDV ==
    /\ dv_status = "absent"
    /\ slc_list = <<>>
    /\ phase_list = <<>>
    /\ kz_list = <<>>
    /\ stack_depth = 0
    /\ DVFields0

AmplitudeBehind(h) == h - 1

\* the index of slc_list and of the frame axis onslide reads
AmplitudeIndex(h) == h

\* the index of phase_list and kz_list onslide reads
PhaseIndex(h) == h - 1

\* DataViewer.onslide(h)
dv_onslide(h) ==
    IF /\ InRange(Len(slc_list), AmplitudeIndex(h))
       /\ InRange(Len(phase_list), PhaseIndex(h))
       /\ InRange(Len(kz_list), PhaseIndex(h))
    THEN /\ dv_titles' =
               <<[ax1 |-> Basename(PyIndex(slc_list, AmplitudeIndex(h))),
                  ax2 |-> Basename(PyIndex(phase_list, PhaseIndex(h))),
                  ax3 |-> Basename(PyIndex(kz_list, PhaseIndex(h)))]>>
         /\ IF InRange(stack_depth, h)
            THEN /\ dv_ax1_images' =
                        Append(dv_ax1_images, [frame |-> PyPos(stack_depth, h)])
                 /\ dv_ax2_images' =
                        Append(dv_ax2_images, [frame |-> PyPos(stack_depth, h)])
                 /\ dv_ax3_images' =
                        Append(dv_ax3_images, [frame |-> PyPos(stack_depth, h)])
                 /\ dv_error' = "none"
            ELSE /\ dv_error' = "IndexError"
                 /\ UNCHANGED <<dv_ax1_images, dv_ax2_images, dv_ax3_images>>
    ELSE /\ dv_error' = "IndexError"
         /\ UNCHANGED <<dv_titles, dv_ax1_images, dv_ax2_images, dv_ax3_images>>

\* the lower bound of the file-number slider
DVSliderMin == 1

\* __init__: the slider, the figure and the first onslide call made by
\* interactive_output
DVConstruct ==
    /\ dv_status = "new"
    /\ LET lo == DVSliderMin
           hi == Len(slc_list) - 1
           v0 == Clamp(lo, hi, 0)
       IN  /\ lo <= hi
           /\ dv_slider' = [created |-> TRUE, min |-> lo, max |-> hi, value |-> v0]
           /\ dv_onslide(v0)
    /\ dv_status' = "ready"
    /\ UNCHANGED <<slc_list, phase_list, kz_list, stack_depth>>
    /\ UNCHANGED tp_vars

\* the file-number slider takes a new value h; the observer runs onslide(h)
DVSliderChange(h) ==
    /\ dv_status = "ready"
    /\ h \in dv_slider.min .. dv_slider.max
    /\ h # dv_slider.value
    /\ Len(dv_ax1_images) < MaxImages
    /\ dv_slider' = [dv_slider EXCEPT !.value = h]
    /\ dv_onslide(h)
    /\ UNCHANGED <<dv_status, slc_list, phase_list, kz_list, stack_depth>>
    /\ UNCHANGED tp_vars

\* ------------------------------------------------------------------------
\* The specification
\* ------------------------------------------------------------------------
Init == \/ InitTP /\ IdleDV
        \/ InitDV /\ IdleTP

Next ==
    \/ ConstructMismatch
    \/ Construct
    \/ \E h \in -MaxHeightDim .. MaxHeightDim : SliderChange(h)
    \/ ToggleCheckbox
    \/ ClearButton
    \/ \E x2 \in -1 .. 2 * MaxRg - 1, y2 \in -1 .. 2 * MaxAz - 1 : OnClick(x2, y2)
    \/ OnClickElsewhere
    \/ DVConstruct
    \/ \E h \in 0 .. MaxLabels : DVSliderChange(h)

Spec == Init /\ [][Next]_vars

\* ------------------------------------------------------------------------
\* Properties
\* ------------------------------------------------------------------------
Ready == tp_status = "ready"

DVReady == dv_status = "ready"

Odd(n) == n % 2 = 1

AllStacked(log) == \A k \in 1..Len(log) : log[k].stack

\* t is x2 / 2 truncated toward zero
IsTruncation(t, x2) ==
    /\ x2 >= 0 => (2 * t <= x2 /\ x2 < 2 * t + 2)
    /\ x2 < 0  => (2 * t >= x2 /\ x2 > 2 * t - 2)

\* C1: a construction with two volumes of different shapes ends in the
\* RuntimeError and leaves no slider, checkbox, button, figure or any other
\* part of the component behind.
C1_MismatchFailsBeforeWidgets ==
    (tp_status \in {"failed", "ready"} /\ caponnorm # capon_bf_abs) =>
        /\ tp_status = "failed"
        /\ error = "RuntimeError"
        /\ ~slider.created
        /\ ~checkbox.created
        /\ ~clearbutton
        /\ ~fig
        /\ ax1_images = <<>>
        /\ fig_colorbars = <<>>
        /\ lhor = <<>>
        /\ lver = <<>>
        /\ ax2 = FreshAxes
        /\ ax3 = FreshImageAxes
        /\ ax4 = FreshImageAxes

C1_Witness ==
    /\ tp_status = "failed"
    /\ caponnorm[1] = capon_bf_abs[1]
    /\ caponnorm[2] = capon_bf_abs[2]
    /\ caponnorm[3] # capon_bf_abs[3]

\* C2: whenever the height slider shows h, the horizontal slice on display
\* is the one at array index H - h (h = H: index 0, h = -H: index 2H).
C2_SliceAtHMinusH ==
    Ready =>
        /\ Len(ax1_images) >= 1
        /\ ax1_images[Len(ax1_images)].idx = height - slider.value
        /\ ax1_title = <<slider.value>>

\* C3 (as claimed): after N clicks on the horizontal slice, all made with
\* stacking enabled since the profile panel was last empty, the panel holds
\* N lines with N distinct labels.
C3_NLinesNDistinctLabels ==
    (Ready /\ AllStacked(click_log)) =>
        /\ Len(ax2.lines) = Len(click_log)
        /\ Cardinality({ax2.lines[k].label : k \in 1..Len(ax2.lines)})
               = Len(click_log)

\* C3 (amended): after N such clicks the panel holds N lines when the height
\* dimension is odd and none when it is even (plot raises); line k carries
\* the label of click k, the legend lists exactly these labels, and two
\* lines share a label exactly when the two clicks hit the same pixel.
C3_NLinesLabelledByPixel ==
    (Ready /\ AllStacked(click_log)) =>
        /\ Len(ax2.lines) = IF Odd(caponnorm[3]) THEN Len(click_log) ELSE 0
        /\ Len(ax2.legend) = Len(ax2.lines)
        /\ \A i \in 1..Len(ax2.lines) :
              /\ ax2.legend[i] = ax2.lines[i].label
              /\ \A j \in 1..Len(ax2.lines) :
                    (ax2.lines[i].label = ax2.lines[j].label)
                        <=> (/\ click_log[i].rg = click_log[j].rg
                             /\ click_log[i].az = click_log[j].az)

C3_Witness ==
    /\ Ready
    /\ AllStacked(click_log)
    /\ Len(click_log) = 2
    /\ Len(ax2.lines) = 2
    /\ ax2.lines[1].label = ax2.lines[2].label

\* C4: after a click on the horizontal slice made with stacking disabled the
\* profile panel holds exactly one line, the one of that click.
C4_OneLineWhenNotStacking ==
    (Ready /\ click_log # <<>> /\ ~click_log[Len(click_log)].stack) =>
        /\ Len(ax2.lines) = 1
        /\ ax2.lines[1].src.rg = click_log[Len(click_log)].rg
        /\ ax2.lines[1].src.az = click_log[Len(click_log)].az

\* C5: whenever the clear button was the last thing to act on the profile
\* panel (no click since), whatever clicks, slider moves and checkbox
\* toggles came before, the panel has no line and no legend and carries its
\* initial labels, title and y-limits [-H, H].
C5_ClearEmptiesPanel ==
    (Ready /\ click_log = <<>>) =>
        /\ ax2.lines = <<>>
        /\ ax2.legend = <<>>
        /\ ax2.ylabel = "height [m]"
        /\ ax2.xlabel = "reflectivity"
        /\ ax2.title = "vertical point profiles"
        /\ ax2.ylim = <<-(capon_bf_abs[3] \div 2), capon_bf_abs[3] \div 2>>

C5_Witness ==
    /\ Ready
    /\ Len(ax3.images) = 2
    /\ click_log = <<>>
    /\ ax2.lines = <<>>
    /\ ax2.title = "vertical point profiles"

\* C6: after a click inside the horizontal slice the cross-hair stands at
\* the click position truncated to integers (rg, az), and the profile
\* extracted is the one at [az, rg], of length shape[2].
C6_CrosshairAndProfile ==
    (Ready /\ event.inaxes = "ax1") =>
        /\ Len(lver) = 1 /\ IsTruncation(lver[1], event.x2)
        /\ Len(lhor) = 1 /\ IsTruncation(lhor[1], event.y2)
        /\ subset_vertical = <<[az |-> lhor[1], rg |-> lver[1],
                                len |-> capon_bf_abs[3]]>>

C6_Witness ==
    /\ Ready
    /\ event.inaxes = "ax1"
    /\ event.x2 = -1
    /\ event.y2 = 3
    /\ lver = <<0>>
    /\ lhor = <<1>>

\* C7: the file-number slider only takes values h in 1 .. len(slc_list) - 1,
\* never 0, and the titles show the amplitude label at index h and the phase
\* and wavenumber labels at index h - 1.
C7_LabelIndices ==
    DVReady =>
        /\ dv_slider.value \in 1 .. Len(slc_list) - 1
        /\ dv_slider.value # 0
        /\ dv_titles = <<[ax1 |-> <<"slc", dv_slider.value>>,
                          ax2 |-> <<"phase", dv_slider.value - 1>>,
                          ax3 |-> <<"kz", dv_slider.value - 1>>]>>

C7_Witness ==
    /\ DVReady
    /\ dv_slider.value = 2
    /\ Len(dv_ax1_images) >= 2

\* C8: once the component is built, and after every slider move, the
\* horizontal-slice panel holds exactly one image, the one drawn last, and
\* the figure exactly one colorbar, the one of that image.
C8_OneImageOneColorbar ==
    Ready =>
        /\ Len(ax1_images) = 1
        /\ Len(fig_colorbars) = 1
        /\ fig_colorbars[1].mappable = ax1_images[1]
        /\ Len(ax1_title) = 1
        /\ ax1_images[1].idx = height - ax1_title[1]

C8_Witness ==
    /\ Ready
    /\ slider.value = 1
    /\ error = "none"
    /\ ax1_title = <<1>>
    /\ Len(ax1_images) = 1

\* C9: each of the three DataViewer panels holds exactly one image, that of
\* the current slider value.
C9_OneImagePerPanel ==
    DVReady =>
        /\ dv_ax1_images = <<[frame |-> dv_slider.value]>>
        /\ dv_ax2_images = <<[frame |-> dv_slider.value]>>
        /\ dv_ax3_images = <<[frame |-> dv_slider.value]>>

\* C10: for every height dimension and every slider value the index H - h
\* that onslide reads lies in 0 .. shape[2] - 1, and no IndexError occurs.
C10_HeightIndexInRange ==
    Ready =>
        /\ HeightIndex(height, slider.value) \in 0 .. caponnorm[3] - 1
        /\ error # "IndexError"

=============================================================================
